---- MODULE Spec2Model ----
(***************************************************************************)
(* Scalable UDP echo server (src/src/server/main.cpp): one Supervisor      *)
(* (main) and one Worker thread (worker_thread_func) per constructed       *)
(* worker_context.  The kernel side of a socket and of its completion port *)
(* is modelled by the sets of posted requests and the completion queues.   *)
(***************************************************************************)
EXTENDS Integers, Sequences, FiniteSets, TLC

\* ------------------------------------------------------------------ bounds
\* num_workers (main.cpp:190-196), scaled down
NumWorkers == 2
\* depth of the Recv and of the Send pool of a Worker, scaled down
OUTSTANDING_OPS == 1
\* datagrams and handle-less completions the environment delivers in one run
MaxDeliveries == 2
\* bytes of an io_context buffer, scaled down
BufferSize == 2

\* ------------------------------------------------------------- value sets
Workers == 0 .. (NumWorkers - 1)
RecvSlots == 1 .. OUTSTANDING_OPS
SendSlots == (OUTSTANDING_OPS + 1) .. (2 * OUTSTANDING_OPS)
\* an io_context is named by its owning Worker and its slot
Contexts == Workers \X (RecvSlots \cup SendSlots)
RecvContexts(w) == {w} \X RecvSlots
SendContexts(w) == {w} \X SendSlots
NULL == <<>>
Peers == {"p1", "p2"}
NoPeer == "none"
\* datagram payloads: empty, shorter than the buffer, filling the buffer
Payloads == {<<>>, <<1>>, <<2, 1>>}
NoDatagram == [payload |-> <<>>, src |-> NoPeer, sock |-> -1]

VARIABLES
    \* Supervisor (main)
    spc,            \* position of main
    si,             \* index of the loop main is in
    workers,        \* std::vector<worker_context>: the recorded indices
    socket,         \* socket[i]: "invalid", "open" or "closed"
    iocp,           \* iocp[i]: "null", "open" or "closed"
    g_shutdown,     \* the shutdown flag
    exit_code,      \* -1 while main runs, then its return value
    totals,         \* total_recv, total_sent, total_bytes_recv, total_bytes_sent
    joined,         \* joined[i]: worker_thread.join() has returned
    stats_read,     \* stats_read[i]: main has read the counters of Worker i
    \* Worker (worker_thread_func)
    wpc,            \* position of the thread of Worker i
    available_send_contexts,
    entries,        \* the entries of the batch not yet handled
    packets_received, packets_sent, bytes_received, bytes_sent,
    \* io_context fields
    buffer, remote_addr,
    \* kernel
    posted,         \* posted[s]: the requests outstanding on socket s
    cq,             \* cq[q]: the completions queued on completion port q
    deliveries,     \* datagrams and handle-less completions delivered so far
    echoed,         \* the datagram the last completed Send put on the wire
    \* history
    recv_post_failed, \* Recv contexts whose last post_recv failed
    recv_posts,     \* recv_posts[i]: calls of post_recv by Worker i
    echo_stats,     \* echo_stats[i]: Recv completions of Worker i that were not
                    \* echoed: free-list empty, post_send failed, zero bytes
    handle_closes,  \* handle_closes[i]: calls of closesocket and CloseHandle
    construct_outcome \* construct_outcome[i]: how the construction of i ended

supervisor_history == <<handle_closes, construct_outcome>>
supervisor_vars == <<spc, si, workers, socket, iocp, exit_code, totals, joined, stats_read,
                     supervisor_history>>
counter_vars == <<packets_received, packets_sent, bytes_received, bytes_sent>>
worker_history == <<recv_post_failed, recv_posts, echo_stats>>
worker_vars == <<wpc, available_send_contexts, entries, counter_vars, worker_history>>
context_vars == <<buffer, remote_addr>>
kernel_vars == <<posted, cq, deliveries, echoed>>
vars == <<supervisor_vars, g_shutdown, worker_vars, context_vars, kernel_vars>>

ZeroBuffer == [k \in 1 .. BufferSize |-> 0]
NoEcho == [sock |-> -1, data |-> <<>>, dest |-> NoPeer, of |-> NoDatagram]
ZeroTotals == [recv |-> 0, sent |-> 0, bytes_recv |-> 0, bytes_sent |-> 0]
NoEchoStats == [dropped |-> 0, send_failed |-> 0, empty |-> 0]
NoCloses == [socket |-> 0, iocp |-> 0]

\* the state of main after the signal handlers are installed (main.cpp:216-220)
Init ==
    /\ spc = "construct"
    /\ si = 0
    /\ workers = <<>>
    /\ socket = [i \in Workers |-> "invalid"]
    /\ iocp = [i \in Workers |-> "null"]
    /\ g_shutdown = FALSE
    /\ exit_code = -1
    /\ totals = ZeroTotals
    /\ joined = [i \in Workers |-> FALSE]
    /\ stats_read = [i \in Workers |-> FALSE]
    /\ wpc = [i \in Workers |-> "unstarted"]
    /\ available_send_contexts = [i \in Workers |-> <<>>]
    /\ entries = [i \in Workers |-> <<>>]
    /\ packets_received = [i \in Workers |-> 0]
    /\ packets_sent = [i \in Workers |-> 0]
    /\ bytes_received = [i \in Workers |-> 0]
    /\ bytes_sent = [i \in Workers |-> 0]
    /\ buffer = [c \in Contexts |-> ZeroBuffer]
    /\ remote_addr = [c \in Contexts |-> NoPeer]
    /\ posted = [i \in Workers |-> {}]
    /\ cq = [i \in Workers |-> <<>>]
    /\ deliveries = 0
    /\ echoed = NoEcho
    /\ recv_post_failed = {}
    /\ recv_posts = [i \in Workers |-> 0]
    /\ echo_stats = [i \in Workers |-> NoEchoStats]
    /\ handle_closes = [i \in Workers |-> NoCloses]
    /\ construct_outcome = [i \in Workers |-> "pending"]

\* ------------------------------------------------------------- Supervisor
signal_handler ==
    /\ exit_code = -1
    /\ ~g_shutdown
    /\ g_shutdown' = TRUE
    /\ UNCHANGED <<supervisor_vars, worker_vars, context_vars, kernel_vars>>

\* the outcomes of one iteration of the construction loop
ConstructOutcomes == {"socket_failed", "bind_failed", "iocp_failed", "ok"}

\* mutant: closesocket is missing where bind fails
SocketAfterConstruct_Leak(outcome) ==
    CASE outcome = "socket_failed" -> "invalid"
      [] outcome = "iocp_failed" -> "closed"
      [] OTHER -> "open"

\* the endpoint of an index at the end of its iteration: never created, closed
\* by closesocket where bind or the port association failed, or open
SocketAfterConstruct(outcome) ==
    CASE outcome = "socket_failed" -> "invalid"
      [] outcome \in {"bind_failed", "iocp_failed"} -> "closed"
      [] OTHER -> "open"

\* mutant: an index whose affinity or buffer sizes could not be set is skipped
IndexRecorded_NeedsHints(outcome, hints_ok) == outcome = "ok" /\ hints_ok

\* workers.push_back is reached unless a continue was taken; hints_ok is the
\* result of set_socket_cpu_affinity and of the two setsockopt calls
IndexRecorded(outcome, hints_ok) == outcome = "ok"

\* one iteration of the construction loop, for index si
ConstructWorker ==
    /\ spc = "construct"
    /\ si < NumWorkers
    /\ \E outcome \in ConstructOutcomes, hints_ok \in BOOLEAN :
        /\ socket' = [socket EXCEPT ![si] = SocketAfterConstruct(outcome)]
        /\ iocp' = [iocp EXCEPT ![si] = IF outcome = "ok" THEN "open" ELSE "null"]
        /\ workers' = IF IndexRecorded(outcome, hints_ok)
                      THEN Append(workers, si) ELSE workers
        /\ handle_closes' = [handle_closes EXCEPT ![si].socket =
                IF SocketAfterConstruct(outcome) = "closed" THEN @ + 1 ELSE @]
        /\ construct_outcome' = [construct_outcome EXCEPT ![si] = outcome]
    /\ si' = si + 1
    /\ UNCHANGED <<spc, exit_code, totals, joined, stats_read>>
    /\ UNCHANGED <<g_shutdown, worker_vars, context_vars, kernel_vars>>

\* mutant: the check for an empty workers vector is missing
NoWorkerCreated_Unchecked == FALSE

\* workers.empty()
NoWorkerCreated == workers = <<>>

\* if (workers.empty()) return 1
NoWorkers ==
    /\ spc = "construct"
    /\ si = NumWorkers
    /\ NoWorkerCreated
    /\ spc' = "exit"
    /\ exit_code' = 1
    /\ UNCHANGED <<si, workers, socket, iocp, totals, joined, stats_read>>
    /\ UNCHANGED supervisor_history
    /\ UNCHANGED <<g_shutdown, worker_vars, context_vars, kernel_vars>>

\* mutant: the threads are not joined
PhaseAfter_SkipJoin(phase) ==
    CASE phase = "start" -> "wait"
      [] phase = "wait" -> "close_iocp"
      [] phase = "close_iocp" -> "close_socket"
      [] phase = "close_socket" -> "stats"
      [] phase = "stats" -> "return"
      [] OTHER -> "exit"

\* mutant: the endpoints are closed before the threads are joined
PhaseAfter_CloseFirst(phase) ==
    CASE phase = "start" -> "wait"
      [] phase = "wait" -> "close_iocp"
      [] phase = "close_iocp" -> "close_socket"
      [] phase = "close_socket" -> "join"
      [] phase = "join" -> "stats"
      [] phase = "stats" -> "return"
      [] OTHER -> "exit"

\* the order of the phases of main after construction (main.cpp:308-359)
PhaseAfter(phase) ==
    CASE phase = "start" -> "wait"
      [] phase = "wait" -> "close_iocp"
      [] phase = "close_iocp" -> "join"
      [] phase = "join" -> "close_socket"
      [] phase = "close_socket" -> "stats"
      [] phase = "stats" -> "return"
      [] OTHER -> "exit"

\* one iteration of a range-for over workers: the next element, or the next phase
LoopStep ==
    /\ si' = IF si < Len(workers) THEN si + 1 ELSE 1
    /\ spc' = IF si < Len(workers) THEN spc ELSE PhaseAfter(spc)

\* the construction loop ends with at least one Worker recorded
WorkersReady ==
    /\ spc = "construct"
    /\ si = NumWorkers
    /\ ~NoWorkerCreated
    /\ spc' = "start"
    /\ si' = 1
    /\ UNCHANGED <<workers, socket, iocp, exit_code, totals, joined, stats_read>>
    /\ UNCHANGED supervisor_history
    /\ UNCHANGED <<g_shutdown, worker_vars, context_vars, kernel_vars>>

\* ctx->worker_thread = std::thread(worker_thread_func, ctx.get())
StartThread ==
    /\ spc = "start"
    /\ wpc' = [wpc EXCEPT ![workers[si]] = "init"]
    /\ LoopStep
    /\ UNCHANGED <<workers, socket, iocp, exit_code, totals, joined, stats_read>>
    /\ UNCHANGED supervisor_history
    /\ UNCHANGED <<available_send_contexts, entries, counter_vars, worker_history>>
    /\ UNCHANGED <<g_shutdown, context_vars, kernel_vars>>

\* while (!g_shutdown.load()) sleep
WaitShutdown ==
    /\ spc = "wait"
    /\ g_shutdown
    /\ spc' = PhaseAfter(spc)
    /\ si' = 1
    /\ UNCHANGED <<workers, socket, iocp, exit_code, totals, joined, stats_read>>
    /\ UNCHANGED supervisor_history
    /\ UNCHANGED <<g_shutdown, worker_vars, context_vars, kernel_vars>>

\* CloseHandle(ctx->iocp)
CloseIocp ==
    /\ spc = "close_iocp"
    /\ iocp' = [iocp EXCEPT ![workers[si]] = IF @ # "null" THEN "closed" ELSE @]
    /\ handle_closes' = [handle_closes EXCEPT ![workers[si]].iocp =
            IF iocp[workers[si]] # "null" THEN @ + 1 ELSE @]
    /\ UNCHANGED construct_outcome
    /\ LoopStep
    /\ UNCHANGED <<workers, socket, exit_code, totals, joined, stats_read>>
    /\ UNCHANGED <<g_shutdown, worker_vars, context_vars, kernel_vars>>

\* mutant: main does not wait for the thread
JoinReturns_NoWait(w) == TRUE

\* std::thread::join returns once the thread function has returned
JoinReturns(w) == wpc[w] = "done"

\* ctx->worker_thread.join()
JoinThread ==
    /\ spc = "join"
    /\ JoinReturns(workers[si])
    /\ joined' = [joined EXCEPT ![workers[si]] = TRUE]
    /\ LoopStep
    /\ UNCHANGED <<workers, socket, iocp, exit_code, totals, stats_read>>
    /\ UNCHANGED supervisor_history
    /\ UNCHANGED <<g_shutdown, worker_vars, context_vars, kernel_vars>>

\* closesocket(ctx->socket)
CloseSocket ==
    /\ spc = "close_socket"
    /\ socket' = [socket EXCEPT ![workers[si]] = IF @ # "invalid" THEN "closed" ELSE @]
    /\ handle_closes' = [handle_closes EXCEPT ![workers[si]].socket =
            IF socket[workers[si]] # "invalid" THEN @ + 1 ELSE @]
    /\ UNCHANGED construct_outcome
    /\ LoopStep
    /\ UNCHANGED <<workers, iocp, exit_code, totals, joined, stats_read>>
    /\ UNCHANGED <<g_shutdown, worker_vars, context_vars, kernel_vars>>

\* total_recv += ctx->packets_received.load() and the three other sums
ReadStats ==
    /\ spc = "stats"
    /\ LET w == workers[si] IN
        /\ totals' = [recv |-> totals.recv + packets_received[w],
                      sent |-> totals.sent + packets_sent[w],
                      bytes_recv |-> totals.bytes_recv + bytes_received[w],
                      bytes_sent |-> totals.bytes_sent + bytes_sent[w]]
        /\ stats_read' = [stats_read EXCEPT ![w] = TRUE]
    /\ LoopStep
    /\ UNCHANGED <<workers, socket, iocp, exit_code, joined>>
    /\ UNCHANGED supervisor_history
    /\ UNCHANGED <<g_shutdown, worker_vars, context_vars, kernel_vars>>

\* cleanup_winsock(); return 0
ReturnZero ==
    /\ spc = "return"
    /\ spc' = "exit"
    /\ exit_code' = 0
    /\ UNCHANGED <<si, workers, socket, iocp, totals, joined, stats_read>>
    /\ UNCHANGED supervisor_history
    /\ UNCHANGED <<g_shutdown, worker_vars, context_vars, kernel_vars>>

Supervisor ==
    \/ ConstructWorker
    \/ NoWorkers
    \/ WorkersReady
    \/ StartThread
    \/ WaitShutdown
    \/ CloseIocp
    \/ JoinThread
    \/ CloseSocket
    \/ ReadStats
    \/ ReturnZero

\* ----------------------------------------------------------------- Worker
\* mutant: every Worker is handed the endpoint of the first index
WorkerSocket_First(w) == 0

\* ctx->socket and ctx->iocp of the worker_context of index w
WorkerSocket(w) == w
WorkerIocp(w) == w
\* create_iocp_and_associate(ctx->socket): the port the completions of s go to
PortOf(s) == s

\* recv_contexts are only ever handed to post_recv, send_contexts to post_send
operation(c) == IF c[2] \in RecvSlots THEN "recv" ELSE "send"

Min(a, b) == IF a < b THEN a ELSE b
Last(q) == q[Len(q)]
Front(q) == SubSeq(q, 1, Len(q) - 1)

\* a posted request: its io_context, the length of its WSABUF, and (history)
\* the datagram a Send echoes
Request(c, len, of) == [ctx |-> c, len |-> len, of |-> of]
\* a completion entry: lpOverlapped, dwNumberOfBytesTransferred, and (history)
\* the datagram a Recv completion reports
Entry(c, bytes, of) == [overlapped |-> c, bytes |-> bytes, of |-> of]

\* a post on socket s succeeds when the kernel accepts it
PostAccepted(s, ok) == ok /\ socket[s] = "open"

\* post_recv(sock, ctx): a Recv request for the whole buffer of ctx
post_recv(P, s, c, ok) ==
    IF PostAccepted(s, ok)
    THEN [P EXCEPT ![s] = @ \cup {Request(c, BufferSize, NoDatagram)}]
    ELSE P

\* post_send(sock, ctx, data, len, addr, addr_len): the request
post_send(P, s, c, len, of, ok) ==
    IF PostAccepted(s, ok)
    THEN [P EXCEPT ![s] = @ \cup {Request(c, len, of)}]
    ELSE P

\* post_send copies data into the buffer of the Send context
CopyInto(old, data) == data \o SubSeq(old, Len(data) + 1, BufferSize)

\* lines 45-69: allocate the contexts, fill the free-list, post the initial Recvs
WorkerInit(w) ==
    /\ wpc[w] = "init"
    /\ available_send_contexts' = [available_send_contexts EXCEPT ![w] =
            [j \in 1 .. OUTSTANDING_OPS |-> <<w, OUTSTANDING_OPS + j>>]]
    /\ \E failed \in SUBSET RecvContexts(w) :
        LET s == WorkerSocket(w)
            accepted == IF socket[s] = "open" THEN RecvContexts(w) \ failed ELSE {}
        IN  /\ posted' = [posted EXCEPT ![s] =
                    @ \cup {Request(c, BufferSize, NoDatagram) : c \in accepted}]
            /\ recv_post_failed' = recv_post_failed \cup (RecvContexts(w) \ accepted)
    /\ recv_posts' = [recv_posts EXCEPT ![w] = @ + OUTSTANDING_OPS]
    /\ wpc' = [wpc EXCEPT ![w] = "loop"]
    /\ UNCHANGED <<entries, counter_vars, echo_stats>>
    /\ UNCHANGED <<supervisor_vars, g_shutdown, context_vars>>
    /\ UNCHANGED <<cq, deliveries, echoed>>

\* mutant: the loop does not test the flag
LoopContinues_Forever(flag) == TRUE

\* while (!g_shutdown.load())
LoopContinues(flag) == ~flag

CheckShutdown(w) ==
    /\ wpc[w] = "loop"
    /\ wpc' = [wpc EXCEPT ![w] = IF LoopContinues(g_shutdown) THEN "dequeue" ELSE "done"]
    /\ UNCHANGED <<available_send_contexts, entries, counter_vars, worker_history>>
    /\ UNCHANGED <<supervisor_vars, g_shutdown, context_vars, kernel_vars>>

\* const ULONG max_entries = OUTSTANDING_OPS * 2
max_entries == 2 * OUTSTANDING_OPS

\* GetQueuedCompletionStatusEx returns a batch of at most max_entries entries
DequeueBatch(w) ==
    LET q == WorkerIocp(w)
        n == Min(Len(cq[q]), max_entries)
    IN  /\ wpc[w] = "dequeue"
        /\ iocp[q] = "open"
        /\ cq[q] # <<>>
        /\ entries' = [entries EXCEPT ![w] = SubSeq(cq[q], 1, n)]
        /\ cq' = [cq EXCEPT ![q] = SubSeq(@, n + 1, Len(@))]
        /\ wpc' = [wpc EXCEPT ![w] = "batch"]
        /\ UNCHANGED <<available_send_contexts, counter_vars, worker_history>>
        /\ UNCHANGED <<supervisor_vars, g_shutdown, context_vars>>
        /\ UNCHANGED <<posted, deliveries, echoed>>

\* mutant: a failed dequeue ends the loop
AfterDequeueFailure_Break == "done"

\* mutant: a failed dequeue is retried without the shutdown check
AfterDequeueFailure_Retry == "dequeue"

\* continue: a failed dequeue goes back to the shutdown check
AfterDequeueFailure == "loop"

\* GetQueuedCompletionStatusEx fails with WAIT_TIMEOUT: continue
DequeueTimeout(w) ==
    LET q == WorkerIocp(w)
    IN  /\ wpc[w] = "dequeue"
        /\ iocp[q] = "open"
        /\ cq[q] = <<>>
        /\ wpc' = [wpc EXCEPT ![w] = AfterDequeueFailure]
        /\ UNCHANGED <<available_send_contexts, entries, counter_vars, worker_history>>
        /\ UNCHANGED <<supervisor_vars, g_shutdown, context_vars, kernel_vars>>

\* GetQueuedCompletionStatusEx fails on a closed port: continue
DequeueFails(w) ==
    LET q == WorkerIocp(w)
    IN  /\ wpc[w] = "dequeue"
        /\ iocp[q] # "open"
        /\ wpc' = [wpc EXCEPT ![w] = AfterDequeueFailure]
        /\ UNCHANGED <<available_send_contexts, entries, counter_vars, worker_history>>
        /\ UNCHANGED <<supervisor_vars, g_shutdown, context_vars, kernel_vars>>

\* mutants: the data, the destination are taken from the Send context
EchoData_FromSend(io, snd, n) == SubSeq(buffer[snd], 1, n)
EchoDest_FromSend(io, snd) == remote_addr[snd]

\* the data and the destination handed to post_send (main.cpp:123-124)
EchoData(io, snd, n) == SubSeq(buffer[io], 1, n)
EchoDest(io, snd) == remote_addr[io]

\* mutant: the context is pushed twice
ReturnSendContext_Twice(list, c) == Append(Append(list, c), c)

\* mutant: the context is not returned to the free-list
ReturnSendContext_Dropped(list, c) == list

\* available_send_contexts.push_back(ctx) (main.cpp:128 and 136)
ReturnSendContext(list, c) == Append(list, c)

\* mutant: after the last entry of a batch the thread dequeues again without
\* testing the flag
NextEntry_SkipCheck(w) ==
    /\ entries' = [entries EXCEPT ![w] = Tail(@)]
    /\ wpc' = [wpc EXCEPT ![w] = IF Tail(entries[w]) = <<>> THEN "dequeue" ELSE "batch"]

\* ++ei: the next entry of the batch, or back to the shutdown check
NextEntry(w) ==
    /\ entries' = [entries EXCEPT ![w] = Tail(@)]
    /\ wpc' = [wpc EXCEPT ![w] = IF Tail(entries[w]) = <<>> THEN "loop" ELSE "batch"]

HandlingEntry(w) == wpc[w] = "batch" /\ entries[w] # <<>>

\* if (overlapped == nullptr) continue
SkipEntry(w) ==
    /\ HandlingEntry(w)
    /\ Head(entries[w]).overlapped = NULL
    /\ NextEntry(w)
    /\ UNCHANGED <<available_send_contexts, counter_vars, worker_history>>
    /\ UNCHANGED <<supervisor_vars, g_shutdown, context_vars, kernel_vars>>

IsRecvEntry(w) ==
    /\ HandlingEntry(w)
    /\ Head(entries[w]).overlapped # NULL
    /\ operation(Head(entries[w]).overlapped) = "recv"

\* mutant: the counters are stored, not added to
CountRecv_Store(w, n) ==
    /\ packets_received' = [packets_received EXCEPT ![w] = 1]
    /\ bytes_received' = [bytes_received EXCEPT ![w] = n]

\* mutant: the bytes of a received datagram are not counted
CountRecv_NoBytes(w, n) ==
    /\ packets_received' = [packets_received EXCEPT ![w] = @ + 1]
    /\ UNCHANGED bytes_received

\* packets_received.fetch_add(1); bytes_received.fetch_add(bytes_transferred)
CountRecv(w, n) ==
    /\ packets_received' = [packets_received EXCEPT ![w] = @ + 1]
    /\ bytes_received' = [bytes_received EXCEPT ![w] = @ + n]

\* mutant: the Recv context is not re-posted
Repost_Skipped(P, w, io, ok) ==
    /\ posted' = P
    /\ UNCHANGED <<recv_post_failed, recv_posts>>

\* post_recv(ctx->socket, io_ctx), its result ignored
Repost(P, w, io, ok) ==
    /\ posted' = post_recv(P, WorkerSocket(w), io, ok)
    /\ recv_post_failed' = IF PostAccepted(WorkerSocket(w), ok)
                           THEN recv_post_failed
                           ELSE recv_post_failed \cup {io}
    /\ recv_posts' = [recv_posts EXCEPT ![w] = @ + 1]

\* mutant: zero-length datagrams are echoed too
HasData_Always(n) == TRUE

\* if (bytes_transferred > 0)
HasData(n) == n > 0

\* mutant: packets_sent is not incremented
CountSent_NoPackets(w, n) ==
    /\ UNCHANGED packets_sent
    /\ bytes_sent' = [bytes_sent EXCEPT ![w] = @ + n]

\* packets_sent.fetch_add(1); bytes_sent.fetch_add(bytes_transferred)
CountSent(w, n) ==
    /\ packets_sent' = [packets_sent EXCEPT ![w] = @ + 1]
    /\ bytes_sent' = [bytes_sent EXCEPT ![w] = @ + n]

\* mutant: the echo is counted whatever post_send returns
EchoCounted_Always(accepted) == TRUE

\* if (post_send(...)): the echo is counted when the post succeeded
EchoCounted(accepted) == accepted

\* a Recv completion with data and a free Send context: echo, then re-post
RecvEcho(w) ==
    /\ IsRecvEntry(w)
    /\ HasData(Head(entries[w]).bytes)
    /\ available_send_contexts[w] # <<>>
    /\ LET e == Head(entries[w])
           io == e.overlapped
           n == e.bytes
           snd == Last(available_send_contexts[w])
           sock == WorkerSocket(w)
       IN  \E send_ok, recv_ok \in BOOLEAN :
            /\ CountRecv(w, n)
            /\ buffer' = [buffer EXCEPT ![snd] = CopyInto(@, EchoData(io, snd, n))]
            /\ remote_addr' = [remote_addr EXCEPT ![snd] = EchoDest(io, snd)]
            /\ IF EchoCounted(PostAccepted(sock, send_ok))
               THEN /\ CountSent(w, n)
                    /\ available_send_contexts' =
                            [available_send_contexts EXCEPT ![w] = Front(@)]
                    /\ UNCHANGED echo_stats
               ELSE /\ UNCHANGED <<packets_sent, bytes_sent>>
                    /\ available_send_contexts' =
                            [available_send_contexts EXCEPT ![w] = ReturnSendContext(Front(@), snd)]
                    /\ echo_stats' = [echo_stats EXCEPT ![w].send_failed = @ + 1]
            /\ Repost(post_send(posted, sock, snd, n, e.of, send_ok), w, io, recv_ok)
    /\ NextEntry(w)
    /\ UNCHANGED <<supervisor_vars, g_shutdown>>
    /\ UNCHANGED <<cq, deliveries, echoed>>

\* mutant: the continue of the drop branch skips the re-post
RecvDrop_NoRepost(w) ==
    /\ IsRecvEntry(w)
    /\ HasData(Head(entries[w]).bytes)
    /\ available_send_contexts[w] = <<>>
    /\ CountRecv(w, Head(entries[w]).bytes)
    /\ echo_stats' = [echo_stats EXCEPT ![w].dropped = @ + 1]
    /\ NextEntry(w)
    /\ UNCHANGED <<available_send_contexts, packets_sent, bytes_sent>>
    /\ UNCHANGED <<recv_post_failed, recv_posts>>
    /\ UNCHANGED <<supervisor_vars, g_shutdown, context_vars>>
    /\ UNCHANGED <<posted, cq, deliveries, echoed>>

\* a Recv completion with data and no free Send context: drop, re-post, continue
RecvDrop(w) ==
    /\ IsRecvEntry(w)
    /\ HasData(Head(entries[w]).bytes)
    /\ available_send_contexts[w] = <<>>
    /\ CountRecv(w, Head(entries[w]).bytes)
    /\ echo_stats' = [echo_stats EXCEPT ![w].dropped = @ + 1]
    /\ \E recv_ok \in BOOLEAN : Repost(posted, w, Head(entries[w]).overlapped, recv_ok)
    /\ NextEntry(w)
    /\ UNCHANGED <<available_send_contexts, packets_sent, bytes_sent>>
    /\ UNCHANGED <<supervisor_vars, g_shutdown, context_vars>>
    /\ UNCHANGED <<cq, deliveries, echoed>>

\* a Recv completion with bytes_transferred = 0: re-post only
RecvEmpty(w) ==
    /\ IsRecvEntry(w)
    /\ ~HasData(Head(entries[w]).bytes)
    /\ CountRecv(w, Head(entries[w]).bytes)
    /\ echo_stats' = [echo_stats EXCEPT ![w].empty = @ + 1]
    /\ \E recv_ok \in BOOLEAN : Repost(posted, w, Head(entries[w]).overlapped, recv_ok)
    /\ NextEntry(w)
    /\ UNCHANGED <<available_send_contexts, packets_sent, bytes_sent>>
    /\ UNCHANGED <<supervisor_vars, g_shutdown, context_vars>>
    /\ UNCHANGED <<cq, deliveries, echoed>>

\* a Send completion: available_send_contexts.push_back(io_ctx)
SendCompleted(w) ==
    /\ HandlingEntry(w)
    /\ Head(entries[w]).overlapped # NULL
    /\ operation(Head(entries[w]).overlapped) = "send"
    /\ available_send_contexts' =
            [available_send_contexts EXCEPT ![w] =
                ReturnSendContext(@, Head(entries[w]).overlapped)]
    /\ NextEntry(w)
    /\ UNCHANGED <<counter_vars, worker_history>>
    /\ UNCHANGED <<supervisor_vars, g_shutdown, context_vars, kernel_vars>>

\* every step of the thread of Worker w
WorkerStep(w) ==
    \/ WorkerInit(w)
    \/ CheckShutdown(w)
    \/ DequeueBatch(w)
    \/ DequeueTimeout(w)
    \/ DequeueFails(w)
    \/ SkipEntry(w)
    \/ RecvEcho(w)
    \/ RecvDrop(w)
    \/ RecvEmpty(w)
    \/ SendCompleted(w)

\* ----------------------------------------------------------------- kernel
\* a datagram arrives on socket s and completes one of its Recv requests: the
\* kernel writes the payload and the source address into the context
DatagramArrives(s) ==
    /\ socket[s] = "open"
    /\ deliveries < MaxDeliveries
    /\ \E r \in posted[s], payload \in Payloads, src \in Peers :
        /\ operation(r.ctx) = "recv"
        /\ buffer' = [buffer EXCEPT ![r.ctx] = CopyInto(@, payload)]
        /\ remote_addr' = [remote_addr EXCEPT ![r.ctx] = src]
        /\ posted' = [posted EXCEPT ![s] = @ \ {r}]
        /\ cq' = [cq EXCEPT ![PortOf(s)] = Append(@,
                Entry(r.ctx, Len(payload), [payload |-> payload, src |-> src, sock |-> s]))]
    /\ deliveries' = deliveries + 1
    /\ UNCHANGED <<supervisor_vars, g_shutdown, worker_vars, echoed>>

\* a Send request on socket s completes: the kernel has put the first len bytes
\* of the context's buffer on the wire, addressed to the context's address
SendCompletes(s) ==
    /\ socket[s] = "open"
    /\ \E r \in posted[s] :
        /\ operation(r.ctx) = "send"
        /\ echoed' = [sock |-> s, data |-> SubSeq(buffer[r.ctx], 1, r.len),
                      dest |-> remote_addr[r.ctx], of |-> r.of]
        /\ posted' = [posted EXCEPT ![s] = @ \ {r}]
        /\ cq' = [cq EXCEPT ![PortOf(s)] = Append(@, Entry(r.ctx, r.len, NoDatagram))]
    /\ UNCHANGED <<supervisor_vars, g_shutdown, worker_vars, context_vars>>
    /\ UNCHANGED deliveries

\* a completion without a request handle is queued on port q
SpuriousCompletion(q) ==
    /\ iocp[q] = "open"
    /\ deliveries < MaxDeliveries
    /\ cq' = [cq EXCEPT ![q] = Append(@, Entry(NULL, 0, NoDatagram))]
    /\ deliveries' = deliveries + 1
    /\ UNCHANGED <<supervisor_vars, g_shutdown, worker_vars, context_vars>>
    /\ UNCHANGED <<posted, echoed>>

Kernel ==
    \/ \E s \in Workers : DatagramArrives(s)
    \/ \E s \in Workers : SendCompletes(s)
    \/ \E q \in Workers : SpuriousCompletion(q)

Next ==
    \/ signal_handler
    \/ Supervisor
    \/ \E w \in Workers : WorkerStep(w)
    \/ Kernel

Spec == Init /\ [][Next]_vars

\* every started thread and main are scheduled; signals and the network are not
\* obliged to do anything
LiveSpec ==
    /\ Spec
    /\ \A w \in Workers : WF_vars(WorkerStep(w))
    /\ WF_vars(Supervisor)

\* ---------------------------------------------------------------- helpers
Recorded == {workers[k] : k \in DOMAIN workers}
Running(w) == wpc[w] \in {"loop", "dequeue", "batch"}
BetweenBatches(w) == wpc[w] \in {"loop", "dequeue"}

\* the places a context can be in
PostedPlaces(c) == UNION {{<<s, r>> : r \in {x \in posted[s] : x.ctx = c}} : s \in Workers}
QueuedPlaces(c) == UNION {{<<q, k>> : k \in {j \in DOMAIN cq[q] : cq[q][j].overlapped = c}} : q \in Workers}
FreePlaces(c) == UNION {{<<w, k>> : k \in {j \in DOMAIN available_send_contexts[w] :
                            available_send_contexts[w][j] = c}} : w \in Workers}
BatchPlaces(c) == UNION {{<<w, k>> : k \in {j \in DOMAIN entries[w] :
                            entries[w][j].overlapped = c}} : w \in Workers}
\* kernel-owned: a request is pending, or has completed and awaits the dequeue
KernelOwned(c) == Cardinality(PostedPlaces(c)) + Cardinality(QueuedPlaces(c))
AppFree(c) == Cardinality(FreePlaces(c))
AppExecuting(c) == Cardinality(BatchPlaces(c))
Holders(c) == KernelOwned(c) + AppFree(c) + AppExecuting(c)

\* ----------------------------------------------------------------- claims
ContextsOf(w) == RecvContexts(w) \cup SendContexts(w)
FailedRecvs(w) == recv_post_failed \cap RecvContexts(w)

\* C1 as stated: every context of a running Worker is in exactly one of the
\* states kernel-owned, application free, application executing, so the Recv
\* contexts in kernel or application number OUTSTANDING_OPS, and so do the Send
\* contexts
C1_ExactlyOneState ==
    \A w \in Workers : Running(w) =>
        /\ \A c \in ContextsOf(w) : Holders(c) = 1
        /\ Cardinality({c \in RecvContexts(w) : KernelOwned(c) + AppExecuting(c) = 1})
                = OUTSTANDING_OPS
        /\ Cardinality({c \in SendContexts(w) : Holders(c) = 1}) = OUTSTANDING_OPS

\* C1 amended: every Send context of a running Worker is in exactly one of the
\* three states; every Recv context is in exactly one of them (never on the
\* free-list) unless its last post failed, and then it is in none; so the Recv
\* contexts in kernel or application number OUTSTANDING_OPS minus the failed
\* posts, and the Send contexts number OUTSTANDING_OPS
C1_ContextOwnership ==
    \A w \in Workers : Running(w) =>
        /\ \A c \in SendContexts(w) : Holders(c) = 1
        /\ \A c \in RecvContexts(w) :
            /\ AppFree(c) = 0
            /\ Holders(c) = IF c \in recv_post_failed THEN 0 ELSE 1
        /\ Cardinality({c \in RecvContexts(w) : KernelOwned(c) + AppExecuting(c) = 1})
                = OUTSTANDING_OPS - Cardinality(FailedRecvs(w))
        /\ Cardinality({c \in SendContexts(w) : Holders(c) = 1}) = OUTSTANDING_OPS

\* a Worker that has lost a Recv context to a failed re-post after a Recv
\* completion while a Send of its is owned by the kernel
C1_Witness ==
    \E w \in Workers :
        /\ Running(w)
        /\ packets_received[w] > 0
        /\ FailedRecvs(w) # {}
        /\ \E c \in SendContexts(w) : KernelOwned(c) = 1

\* the Recv requests outstanding on the endpoint of Worker w: pending, or
\* completed and not yet dequeued
OutstandingRecvs(w) ==
    Cardinality({r \in posted[WorkerSocket(w)] : operation(r.ctx) = "recv"})
    + Cardinality({k \in DOMAIN cq[WorkerIocp(w)] :
            /\ cq[WorkerIocp(w)][k].overlapped # NULL
            /\ operation(cq[WorkerIocp(w)][k].overlapped) = "recv"})

\* C2 as stated: while the shutdown flag is clear and the Worker is between
\* batches, the Recv requests outstanding on its endpoint number OUTSTANDING_OPS
C2_FullDepth ==
    \A w \in Workers : (~g_shutdown /\ BetweenBatches(w)) =>
        OutstandingRecvs(w) = OUTSTANDING_OPS

\* C2 amended: while the shutdown flag is clear and the Worker is between
\* batches, the Recv requests outstanding on its endpoint number
\* OUTSTANDING_OPS minus the Recv posts of the Worker that failed
C2_DepthLessFailures ==
    \A w \in Workers : (~g_shutdown /\ BetweenBatches(w)) =>
        OutstandingRecvs(w) = OUTSTANDING_OPS - Cardinality(FailedRecvs(w))

\* a Worker between batches, the flag clear, that has handled a Recv completion
\* and re-posted its context, and has every Recv outstanding
C2_Witness ==
    \E w \in Workers :
        /\ ~g_shutdown
        /\ BetweenBatches(w)
        /\ packets_received[w] > 0
        /\ OutstandingRecvs(w) = OUTSTANDING_OPS

\* C3: of every Worker, packets_sent <= packets_received and
\* bytes_sent <= bytes_received
C3_CounterConsistency ==
    \A w \in Workers :
        /\ packets_sent[w] <= packets_received[w]
        /\ bytes_sent[w] <= bytes_received[w]

\* a Worker that has echoed one datagram and has not echoed another one
C3_Witness ==
    \E w \in Workers :
        /\ packets_sent[w] > 0
        /\ packets_sent[w] < packets_received[w]
        /\ 0 < bytes_sent[w]
        /\ bytes_sent[w] < bytes_received[w]

\* the Supervisor has closed the completion port of every recorded Worker
QueuesClosed ==
    /\ workers # <<>>
    /\ spc \notin {"construct", "start", "wait"}
    /\ \A w \in Recorded : iocp[w] = "closed"

\* C4: once the shutdown flag is set and the completion ports are closed, every
\* Worker thread eventually returns and the Supervisor's join of it completes
C4_ShutdownTerminates ==
    (g_shutdown /\ QueuesClosed) ~>
        (\A w \in Recorded : wpc[w] = "done" /\ joined[w])

\* the ports are closed while a Worker is about to dequeue from its port
C4_Witness ==
    /\ g_shutdown
    /\ QueuesClosed
    /\ \E w \in Recorded : wpc[w] = "dequeue"

\* C5: the teardown order is fixed: no completion port is closed while the flag
\* is clear, no Worker is joined before the port of every recorded Worker is
\* closed, no endpoint of a recorded Worker is closed before every Worker
\* thread is joined, and main returns 0 only with all of it done
C5_TeardownOrder ==
    /\ (\E i \in Workers : iocp[i] = "closed") => g_shutdown
    /\ (\E i \in Workers : joined[i]) => \A w \in Recorded : iocp[w] = "closed"
    /\ (\E w \in Recorded : socket[w] = "closed") => \A v \in Recorded : joined[v]
    /\ exit_code = 0 =>
            \A w \in Recorded : iocp[w] = "closed" /\ joined[w] /\ socket[w] = "closed"

\* main has torn down two Workers, one of which has received a datagram
C5_Witness ==
    /\ exit_code = 0
    /\ Len(workers) = 2
    /\ \E w \in Recorded : packets_received[w] > 0

RECURSIVE SumOf(_, _)
SumOf(f, S) ==
    IF S = {} THEN 0
    ELSE LET x == CHOOSE y \in S : TRUE IN f[x] + SumOf(f, S \ {x})

\* C6: the counters of a Worker are read only after its thread is joined, no
\* counter changes once it is read, and each total main reports is the sum over
\* the Workers of the counter's final value
C6_StatsAfterJoin ==
    /\ [](\A w \in Workers : stats_read[w] => (joined[w] /\ wpc[w] = "done"))
    /\ [][\A w \in Workers : stats_read[w] =>
            /\ packets_received'[w] = packets_received[w]
            /\ packets_sent'[w] = packets_sent[w]
            /\ bytes_received'[w] = bytes_received[w]
            /\ bytes_sent'[w] = bytes_sent[w]]_vars
    /\ [](exit_code = 0 =>
            /\ totals.recv = SumOf(packets_received, Recorded)
            /\ totals.sent = SumOf(packets_sent, Recorded)
            /\ totals.bytes_recv = SumOf(bytes_received, Recorded)
            /\ totals.bytes_sent = SumOf(bytes_sent, Recorded))

\* main has returned the totals of two Workers that both echoed a datagram
C6_Witness ==
    /\ exit_code = 0
    /\ \A w \in Workers : stats_read[w] /\ packets_sent[w] > 0
    /\ totals.sent = 2

\* construction is over and has failed for every index
AllConstructionsFailed ==
    /\ spc # "construct" \/ si = NumWorkers
    /\ workers = <<>>

\* C7: when construction fails for every index, main ends with exit code 1 and
\* no Worker thread is ever started
C7_NoWorkerIsFatal ==
    AllConstructionsFailed =>
        /\ spc \in {"construct", "exit"}
        /\ exit_code = IF spc = "exit" THEN 1 ELSE -1
        /\ \A i \in Workers : wpc[i] = "unstarted"

\* main has returned 1 after closing the endpoint of an index whose bind or
\* port association failed
C7_Witness ==
    /\ AllConstructionsFailed
    /\ exit_code = 1
    /\ \E i \in Workers : socket[i] = "closed"

\* a step leaves everything that belongs to the Workers other than w unchanged
OthersUnchanged(w) ==
    \A v \in Workers \ {w} :
        /\ wpc'[v] = wpc[v]
        /\ available_send_contexts'[v] = available_send_contexts[v]
        /\ entries'[v] = entries[v]
        /\ packets_received'[v] = packets_received[v]
        /\ packets_sent'[v] = packets_sent[v]
        /\ bytes_received'[v] = bytes_received[v]
        /\ bytes_sent'[v] = bytes_sent[v]
        /\ socket'[v] = socket[v]
        /\ iocp'[v] = iocp[v]
        /\ posted'[v] = posted[v]
        /\ cq'[v] = cq[v]
        /\ \A c \in ContextsOf(v) :
            /\ buffer'[c] = buffer[c]
            /\ remote_addr'[c] = remote_addr[c]
        /\ FailedRecvs(v)' = FailedRecvs(v)

\* C8: every step of the thread of a Worker leaves the counters, contexts,
\* free-list, endpoint and completion port of every other Worker unchanged
C8_WorkerIsolation ==
    [][\A w \in Workers : WorkerStep(w) => OthersUnchanged(w)]_vars

\* both Workers have received a datagram and posted its echo
C8_Witness ==
    \A w \in Workers : packets_sent[w] > 0 /\ Running(w)

\* C9: the bytes a completed echo Send has put on the wire are the
\* bytes_transferred bytes of the datagram whose Recv completion triggered it
C9_PayloadFidelity ==
    echoed # NoEcho => echoed.data = echoed.of.payload

\* an echo has gone out after the Recv context it was taken from was re-posted
\* and filled by a later, different datagram: the completion of that Recv is
\* queued ahead of the completion of the Send
C9_Witness ==
    /\ echoed # NoEcho
    /\ \E q \in Workers :
        /\ Len(cq[q]) >= 2
        /\ cq[q][1].overlapped \in RecvContexts(q)
        /\ cq[q][2].overlapped \in SendContexts(q)
        /\ cq[q][1].of.payload # echoed.of.payload
        /\ EchoData(cq[q][1].overlapped, cq[q][2].overlapped, Len(echoed.data)) # echoed.data

\* C10: every echo Send, posted or completed, is addressed to the source the
\* kernel reported for the Recv completion that triggered it, on the endpoint
\* on which that Recv completed
C10_PeerSymmetry ==
    /\ \A s \in Workers : \A r \in posted[s] : operation(r.ctx) = "send" =>
            /\ remote_addr[r.ctx] = r.of.src
            /\ r.of.sock = s
    /\ echoed # NoEcho =>
            /\ echoed.dest = echoed.of.src
            /\ echoed.sock = echoed.of.sock

\* an echo has gone out to one peer after the Recv context it was triggered by
\* was re-posted and reported a datagram from the other peer
C10_Witness ==
    /\ echoed # NoEcho
    /\ \E q \in Workers :
        /\ Len(cq[q]) >= 2
        /\ cq[q][1].overlapped \in RecvContexts(q)
        /\ cq[q][2].overlapped \in SendContexts(q)
        /\ remote_addr[cq[q][1].overlapped] # echoed.dest
        /\ cq[q][1].of.src # echoed.of.src

\* C11: no step decreases any of the four counters of any Worker
C11_CountersMonotonic ==
    [][\A w \in Workers :
        /\ packets_received'[w] >= packets_received[w]
        /\ packets_sent'[w] >= packets_sent[w]
        /\ bytes_received'[w] >= bytes_received[w]
        /\ bytes_sent'[w] >= bytes_sent[w]]_vars

\* a Worker thread has returned after all four of its counters have grown,
\* the received ones twice
C11_Witness ==
    \E w \in Workers :
        /\ wpc[w] = "done"
        /\ packets_received[w] = 2
        /\ packets_sent[w] > 0
        /\ bytes_received[w] > bytes_sent[w]
        /\ bytes_sent[w] > 0

\* the step handles the entry at the head of the batch of Worker w
HandlesHead(w) == HandlingEntry(w) /\ entries'[w] = Tail(entries[w])

\* the Send requests outstanding on the endpoint of Worker w
SendRequests(P, w) == {r \in P[WorkerSocket(w)] : operation(r.ctx) = "send"}

\* the step calls post_recv once for context io of Worker w: afterwards its
\* request is outstanding, or the post has failed
RepostsOnce(w, io) ==
    /\ recv_posts'[w] = recv_posts[w] + 1
    /\ \/ /\ Request(io, BufferSize, NoDatagram) \in posted'[WorkerSocket(w)]
          /\ io \notin recv_post_failed'
       \/ /\ \A r \in posted'[WorkerSocket(w)] : r.ctx # io
          /\ io \in recv_post_failed'

\* C12: handling a Recv completion with bytes_transferred = 0 increments
\* packets_received by one, leaves bytes_received, packets_sent and bytes_sent
\* unchanged, takes no Send context, posts no Send, and re-posts the Recv context
C12_EmptyDatagram ==
    [][\A w \in Workers :
        (HandlesHead(w) /\ IsRecvEntry(w) /\ Head(entries[w]).bytes = 0) =>
            /\ packets_received'[w] = packets_received[w] + 1
            /\ bytes_received'[w] = bytes_received[w]
            /\ packets_sent'[w] = packets_sent[w]
            /\ bytes_sent'[w] = bytes_sent[w]
            /\ available_send_contexts'[w] = available_send_contexts[w]
            /\ SendRequests(posted', w) = SendRequests(posted, w)
            /\ RepostsOnce(w, Head(entries[w]).overlapped)]_vars

\* a Worker with a free Send context has handled one zero-length datagram and
\* nothing else, and its Recv context is outstanding again
C12_Witness ==
    \E w \in Workers :
        /\ echo_stats[w].empty = 1
        /\ packets_received[w] = 1
        /\ bytes_received[w] = 0
        /\ packets_sent[w] = 0
        /\ available_send_contexts[w] # <<>>
        /\ OutstandingRecvs(w) = OUTSTANDING_OPS

\* C13: for a Worker that has received only non-empty datagrams and has had no
\* Send post fail, packets_received - packets_sent is the number of echoes it
\* dropped on an empty free-list; with no drops the two counters are equal
C13_SentModuloDrops ==
    \A w \in Workers :
        (echo_stats[w].empty = 0 /\ echo_stats[w].send_failed = 0) =>
            /\ packets_received[w] - packets_sent[w] = echo_stats[w].dropped
            /\ echo_stats[w].dropped = 0 => packets_sent[w] = packets_received[w]

\* a Worker has echoed one non-empty datagram and dropped the echo of another
C13_Witness ==
    \E w \in Workers :
        /\ echo_stats[w].empty = 0
        /\ echo_stats[w].send_failed = 0
        /\ echo_stats[w].dropped = 1
        /\ packets_sent[w] = 1
        /\ packets_received[w] = 2

\* the phases of main that follow the wait for the shutdown flag
AfterWait == {"close_iocp", "join", "close_socket", "stats", "return"}

\* C14: a Worker thread has left its loop only if the shutdown flag is set, and
\* main has gone past its wait, or returned 0, only if the flag is set
C14_ExitOnlyOnShutdown ==
    /\ \A w \in Workers : wpc[w] = "done" => g_shutdown
    /\ spc \in AfterWait => g_shutdown
    /\ exit_code = 0 => g_shutdown

\* with the flag clear, a Worker that has dropped an echo on an empty free-list
\* and has lost its Recv context to a failed post is in its loop, its queue
\* empty, so that its next dequeue times out
C14_Witness ==
    /\ ~g_shutdown
    /\ \E w \in Workers :
        /\ wpc[w] = "dequeue"
        /\ cq[WorkerIocp(w)] = <<>>
        /\ echo_stats[w].dropped > 0
        /\ FailedRecvs(w) # {}

\* the indices whose iteration of the construction loop has run
Constructed == {i \in Workers : construct_outcome[i] # "pending"}

\* the closes that a handle in state h has had
ClosesOf(h) == IF h = "closed" THEN 1 ELSE 0

\* C15: once main has returned, every endpoint and every queue that was created
\* is closed, and has been closed once; no handle is ever closed twice; the
\* endpoint of a skipped index is closed by the end of its iteration, and the
\* handles of a recorded Worker are open until the teardown
C15_HandlesClosedOnce ==
    /\ \A i \in Workers :
        /\ handle_closes[i].socket = ClosesOf(socket[i])
        /\ handle_closes[i].iocp = ClosesOf(iocp[i])
    /\ \A i \in Constructed \ Recorded :
        /\ socket[i] = IF construct_outcome[i] = "socket_failed" THEN "invalid" ELSE "closed"
        /\ iocp[i] = "null"
    /\ \A i \in Recorded :
        spc \in {"construct", "start", "wait"} => (socket[i] = "open" /\ iocp[i] = "open")
    /\ exit_code \in {0, 1} =>
        \A i \in Workers :
            /\ socket[i] \in {"invalid", "closed"}
            /\ iocp[i] \in {"null", "closed"}
            /\ i \in Recorded => (socket[i] = "closed" /\ iocp[i] = "closed")

\* main has returned 0 after a run in which one index was skipped with its
\* endpoint created, and the Worker of the other index echoed a datagram
C15_Witness ==
    /\ exit_code = 0
    /\ \E i \in Workers : construct_outcome[i] \in {"bind_failed", "iocp_failed"}
    /\ \E w \in Recorded : packets_sent[w] > 0 /\ handle_closes[w] = [socket |-> 1, iocp |-> 1]

\* main has returned 1 after closing the endpoint of every index
C15_FailedStartWitness ==
    /\ exit_code = 1
    /\ \A i \in Workers : handle_closes[i] = [socket |-> 1, iocp |-> 0]

\* C16: handling a Recv completion with bytes_transferred > 0 while the Send
\* free-list is empty posts no Send, leaves packets_sent, bytes_sent and the
\* (empty) free-list unchanged, and calls post_recv once for the Recv context
C16_DropOnEmptyFreeList ==
    [][\A w \in Workers :
        (/\ HandlesHead(w)
         /\ IsRecvEntry(w)
         /\ Head(entries[w]).bytes > 0
         /\ available_send_contexts[w] = <<>>) =>
            /\ SendRequests(posted', w) = SendRequests(posted, w)
            /\ packets_sent'[w] = packets_sent[w]
            /\ bytes_sent'[w] = bytes_sent[w]
            /\ available_send_contexts'[w] = <<>>
            /\ RepostsOnce(w, Head(entries[w]).overlapped)]_vars

\* a Worker has dropped an echo while its only Send was outstanding, and its
\* Recv context is outstanding again
C16_Witness ==
    \E w \in Workers :
        /\ echo_stats[w].dropped = 1
        /\ packets_sent[w] = 1
        /\ packets_received[w] = 2
        /\ FailedRecvs(w) = {}
        /\ OutstandingRecvs(w) = OUTSTANDING_OPS

\* the step adds a Send request for context c to the endpoint of Worker w
SendPosted(w, c) ==
    \E r \in posted'[WorkerSocket(w)] \ posted[WorkerSocket(w)] : r.ctx = c

\* C17: handling a Recv completion with data and a free Send context: when the
\* Send post fails, the free-list is as it was before the pop and packets_sent
\* and bytes_sent are unchanged; when it succeeds, the context is off the
\* free-list and the two counters grow by one and by the length; post_recv is
\* called once for the Recv context either way; and no step changes packets_sent
\* or bytes_sent of a Worker without posting a Send on its endpoint
C17_SendPostFailure ==
    [][\A w \in Workers :
        /\ (/\ HandlesHead(w)
            /\ IsRecvEntry(w)
            /\ Head(entries[w]).bytes > 0
            /\ available_send_contexts[w] # <<>>) =>
                /\ IF SendPosted(w, Last(available_send_contexts[w]))
                   THEN /\ available_send_contexts'[w] = Front(available_send_contexts[w])
                        /\ packets_sent'[w] = packets_sent[w] + 1
                        /\ bytes_sent'[w] = bytes_sent[w] + Head(entries[w]).bytes
                        /\ echo_stats'[w] = echo_stats[w]
                   ELSE /\ available_send_contexts'[w] = available_send_contexts[w]
                        /\ packets_sent'[w] = packets_sent[w]
                        /\ bytes_sent'[w] = bytes_sent[w]
                        /\ echo_stats'[w].send_failed = echo_stats[w].send_failed + 1
                /\ RepostsOnce(w, Head(entries[w]).overlapped)
        /\ (packets_sent'[w] # packets_sent[w] \/ bytes_sent'[w] # bytes_sent[w]) =>
                \E c \in SendContexts(w) : SendPosted(w, c)]_vars

\* the one Send post of a Worker has failed: its Send context is on the
\* free-list, nothing was counted as sent, and its Recv context is outstanding
C17_Witness ==
    \E w \in Workers :
        /\ echo_stats[w].send_failed = 1
        /\ packets_received[w] = 1
        /\ packets_sent[w] = 0
        /\ bytes_sent[w] = 0
        /\ Len(available_send_contexts[w]) = OUTSTANDING_OPS
        /\ FailedRecvs(w) = {}
        /\ OutstandingRecvs(w) = OUTSTANDING_OPS

\* the Recv contexts of Worker w that the kernel or the application holds
HeldRecvs(w) == {c \in RecvContexts(w) : KernelOwned(c) + AppExecuting(c) = 1}

\* C18: a Recv context whose post failed is never posted again (the failure is
\* permanent, and the context is neither pending, queued nor in a batch); the
\* step of a failed re-post goes on to the next entry or to the shutdown check;
\* the Recv contexts held for a running Worker number OUTSTANDING_OPS minus the
\* failed posts; and a running Worker whose every Recv post has failed returns
\* once the shutdown flag is set
C18_RecvPostFailure ==
    /\ [][recv_post_failed \subseteq recv_post_failed']_vars
    /\ [](\A w \in Workers : Running(w) =>
            /\ \A c \in FailedRecvs(w) : Holders(c) = 0
            /\ Cardinality(HeldRecvs(w)) = OUTSTANDING_OPS - Cardinality(FailedRecvs(w)))
    /\ [][\A w \in Workers :
            (HandlingEntry(w) /\ FailedRecvs(w)' # FailedRecvs(w)) =>
                /\ entries'[w] = Tail(entries[w])
                /\ wpc'[w] = IF entries'[w] = <<>> THEN "loop" ELSE "batch"]_vars
    /\ \A w \in Workers :
        (g_shutdown /\ Running(w) /\ FailedRecvs(w) = RecvContexts(w)) ~> (wpc[w] = "done")

\* a running Worker every Recv post of which has failed: the re-post failed in
\* the step that posted its echo, and it has since handled the Send completion
C18_Witness ==
    \E w \in Workers :
        /\ Running(w)
        /\ FailedRecvs(w) = RecvContexts(w)
        /\ packets_received[w] = 1
        /\ packets_sent[w] = 1
        /\ Len(available_send_contexts[w]) = OUTSTANDING_OPS

\* C19: an index whose construction failed is not recorded, its endpoint is
\* closed if it was created, it has no queue and its thread is never started; an
\* index whose socket, bind and queue succeeded is recorded whatever the affinity
\* and buffer-size calls returned; the loop visits every index; and once the
\* start loop is over, the thread of every recorded Worker has been started
C19_FailureIsPerIndex ==
    /\ \A i \in Constructed : (i \in Recorded) <=> (construct_outcome[i] = "ok")
    /\ \A i \in Constructed \ Recorded :
        /\ socket[i] = IF construct_outcome[i] = "socket_failed" THEN "invalid" ELSE "closed"
        /\ iocp[i] = "null"
        /\ wpc[i] = "unstarted"
    /\ Constructed = IF spc = "construct" THEN {i \in Workers : i < si} ELSE Workers
    /\ spc \in ({"wait"} \cup AfterWait) => \A w \in Recorded : wpc[w] # "unstarted"
    /\ exit_code = 0 => \A w \in Recorded : wpc[w] = "done"

\* the queue of one index could not be created, and the Worker of another
\* index, constructed after it, has echoed a datagram
C19_Witness ==
    \E i, w \in Workers :
        /\ i < w
        /\ construct_outcome[i] = "iocp_failed"
        /\ socket[i] = "closed"
        /\ wpc[i] = "unstarted"
        /\ w \in Recorded
        /\ packets_sent[w] > 0

\* the elements of a sequence
Range(list) == {list[k] : k \in DOMAIN list}

\* C20: the Send free-list of a Worker holds at most OUTSTANDING_OPS entries,
\* none twice, each a Send context of the Worker with no request pending or
\* completion queued; outside thread start-up it changes only by the pop of its
\* last entry with the Send posted, or by the push of the context whose Send
\* completion is being handled (the push after a failed post restores the list)
C20_FreeListBounded ==
    /\ [](\A w \in Workers :
            /\ Len(available_send_contexts[w]) <= OUTSTANDING_OPS
            /\ Cardinality(Range(available_send_contexts[w])) = Len(available_send_contexts[w])
            /\ \A c \in Range(available_send_contexts[w]) :
                c \in SendContexts(w) /\ KernelOwned(c) = 0)
    /\ [][\A w \in Workers :
            (available_send_contexts'[w] # available_send_contexts[w] /\ wpc[w] # "init") =>
                /\ HandlesHead(w)
                /\ \/ /\ IsRecvEntry(w)
                      /\ available_send_contexts[w] # <<>>
                      /\ available_send_contexts'[w] = Front(available_send_contexts[w])
                      /\ SendPosted(w, Last(available_send_contexts[w]))
                   \/ /\ operation(Head(entries[w]).overlapped) = "send"
                      /\ available_send_contexts'[w] =
                            Append(available_send_contexts[w], Head(entries[w]).overlapped)]_vars

\* the Send completion of an echo has been handled and the free-list is full
\* again, while the Worker goes on
C20_Witness ==
    \E w \in Workers :
        /\ Running(w)
        /\ packets_sent[w] = 1
        /\ echo_stats[w].send_failed = 0
        /\ Len(available_send_contexts[w]) = OUTSTANDING_OPS
        /\ \A c \in SendContexts(w) : KernelOwned(c) = 0 /\ AppExecuting(c) = 0

\* C21: the flag is read only at the loop condition, between batches: a batch
\* has at most max_entries entries and is held only while it is being handled;
\* every step on a batch handles its head entry, whatever the flag, and goes
\* back to the loop condition only after the last one; a thread returns only
\* from the loop condition with the flag set; and once the flag is set no
\* Worker starts a dequeue (the one it may be in is its last) and no Worker
\* begins a batch other than the one that dequeue returns
C21_FlagBetweenBatches ==
    /\ [](\A w \in Workers :
            /\ Len(entries[w]) <= max_entries
            /\ (wpc[w] = "batch") <=> (entries[w] # <<>>))
    /\ [][\A w \in Workers :
            /\ (wpc[w] = "batch" /\ <<wpc[w], entries[w]>>' # <<wpc[w], entries[w]>>) =>
                    /\ entries'[w] = Tail(entries[w])
                    /\ wpc'[w] = IF entries'[w] = <<>> THEN "loop" ELSE "batch"
            /\ (wpc[w] # "batch" /\ wpc'[w] = "batch") =>
                    /\ wpc[w] = "dequeue"
                    /\ entries'[w] = SubSeq(cq[WorkerIocp(w)], 1, Len(entries'[w]))
            /\ (wpc[w] # "done" /\ wpc'[w] = "done") => (wpc[w] = "loop" /\ g_shutdown)
            /\ (wpc[w] = "loop" /\ wpc'[w] # "loop") =>
                    wpc'[w] = IF g_shutdown THEN "done" ELSE "dequeue"
            /\ (g_shutdown /\ wpc'[w] = "dequeue") => wpc[w] = "dequeue"]_vars

\* the flag is set while a Worker is in its dequeue with a full batch of
\* completions queued: it has this one batch left to handle
C21_Witness ==
    /\ g_shutdown
    /\ \E w \in Workers :
        /\ wpc[w] = "dequeue"
        /\ iocp[WorkerIocp(w)] = "open"
        /\ Len(cq[WorkerIocp(w)]) >= max_entries

\* the thread of Worker w exists and has not returned
ThreadLive(w) == wpc[w] \in {"init", "loop", "dequeue", "batch"}

\* the step has Worker w call post_recv, or post_send for an echo
PostsOnEndpoint(w) ==
    \/ recv_posts'[w] # recv_posts[w]
    \/ /\ HandlesHead(w)
       /\ IsRecvEntry(w)
       /\ HasData(Head(entries[w]).bytes)
       /\ available_send_contexts[w] # <<>>

\* the four counters of Worker w
CountersOf(w) == <<packets_received[w], packets_sent[w], bytes_received[w], bytes_sent[w]>>

\* C22: the endpoint of a Worker is open as long as its thread has not
\* returned, so every post_recv and post_send is made on an open endpoint; and
\* no step changes a counter of a Worker that main has read
C22_TeardownRaces ==
    /\ [](\A w \in Workers : ThreadLive(w) => socket[WorkerSocket(w)] = "open")
    /\ [][\A w \in Workers :
            /\ PostsOnEndpoint(w) => socket[WorkerSocket(w)] = "open"
            /\ stats_read[w] => CountersOf(w)' = CountersOf(w)]_vars

\* the completion ports are closed while one Worker still has a datagram of
\* its batch to echo and re-post for on its open endpoint, and another is about
\* to dequeue from its closed port
C22_Witness ==
    \E w, v \in Recorded :
        /\ iocp[WorkerIocp(w)] = "closed"
        /\ socket[WorkerSocket(w)] = "open"
        /\ IsRecvEntry(w)
        /\ HasData(Head(entries[w]).bytes)
        /\ available_send_contexts[w] # <<>>
        /\ iocp[WorkerIocp(v)] = "closed"
        /\ wpc[v] = "dequeue"
====
